---- MODULE Spec2Model ----
(***************************************************************************)
(* Authentication and session lifecycle of the TLCA backend:               *)
(* src/users/resolvers.js (refreshToken, signIn, signOut, signUp,          *)
(* validateAccount, getTokens) and the older resolvers of                  *)
(* src/data/resolvers.js (signIn, signOut, signUp).                        *)
(*                                                                         *)
(* A resolver that awaits a store read and later a store save is two       *)
(* steps (Read, Save) of a request handler, so that the handlers of two    *)
(* requests interleave the way two async functions do on one event loop.   *)
(* The clock counts whole seconds; lifetimes are scaled down.              *)
(***************************************************************************)
EXTENDS Integers, Sequences, FiniteSets, TLC

VARIABLES
    users,      \* the User collection: a sequence of documents, _id = index
    regs,       \* the Registration collection (invitations)
    now,        \* the clock, in seconds
    pending,    \* per request handler: the call suspended at its save
    last,       \* the call that completed last, with its outcome
    rot,        \* history: the latest successful rotation (user, token replaced)
    issued,     \* history: per user, the refresh token returned last
    signedOut,  \* history: users whose signOut returned true, no signIn since
    validated   \* history: users for whom validateAccount returned true

vars == <<users, regs, now, pending, last, rot, issued, signedOut, validated>>

-----------------------------------------------------------------------------
(* Bounds and scaled constants *)

\* the clock stops at MaxTime seconds
MaxTime == 2

\* expiresIn: '14d' / plus({ days: 14 }), scaled to seconds of the model
RefreshLife == 2

\* lifetime of the confirmation token set by updateEmail, scaled
ConfirmLife == 1

Procs == {"A", "B"}

Emails == {"a@b.com", "c@d.com"}
BadEmail == "not-an-email"
Usernames == {"u1", "u2"}
GoodPassword == "Secret123"
BadPassword == "x"
NoString == ""

\* undefined, for a Date field and for a token field
NoDate == -1
NoToken == [kind |-> "none", id |-> 0, iat |-> 0]
JunkToken == [kind |-> "junk", id |-> 0, iat |-> 0]
NoConfToken == 0

MaxUsers == Cardinality(Emails)
UserIds == 1..Len(users)

Idle == [op |-> "idle"]
NoCall == [op |-> "none", out |-> "none"]
NoRot == [id |-> 0, old |-> NoToken]

-----------------------------------------------------------------------------
(* Libraries: jsonwebtoken and luxon *)

\* jwt.sign(userinfo, secret, { expiresIn }): the token is a function of the
\* payload, the secret and the second it is signed in (iat).
sign(id, kind, t) == [kind |-> kind, id |-> id, iat |-> t]

\* jwt.verify(token, JWT_REFRESH_TOKEN_SECRET): the decoded payload, or the
\* name of the error it throws; it never returns a falsy value.
verify(tok, t) ==
    IF tok.kind # "refresh" THEN "JsonWebTokenError"
    ELSE IF t >= tok.iat + RefreshLife THEN "TokenExpiredError"
    ELSE "ok"

\* DateTime.fromISO(x) parses an ISO 8601 string. The expiry fields hold JS
\* Dates (toJSDate()), whose string form is not ISO 8601: the result is an
\* invalid DateTime, whose valueOf() is NaN.
NaN == -2
fromISO(d) == NaN

\* DateTime.now() > x: a comparison with NaN is false.
After(t, x) == x # NaN /\ t > x

-----------------------------------------------------------------------------
Init ==
    /\ users = <<>>
    /\ regs = <<[email |-> "a@b.com", user |-> 0], [email |-> "a@b.com", user |-> 0]>>
    /\ now = 0
    /\ pending = [p \in Procs |-> Idle]
    /\ last = NoCall
    /\ rot = NoRot
    /\ issued = <<>>
    /\ signedOut = {}
    /\ validated = {}

Tick ==
    /\ now < MaxTime
    /\ now' = now + 1
    /\ UNCHANGED <<users, regs, pending, last, rot, issued, signedOut, validated>>

-----------------------------------------------------------------------------
(* The Credential Store and the User model (user-model.js is outside src/) *)

Min(S) == CHOOSE x \in S : \A y \in S : x <= y

\* User.findOne(filter): the _id of the first of the matching documents,
\* 0 for null
findOne(matching) == IF matching = {} THEN 0 ELSE Min(matching)

\* user.authenticate(password): the Password Verifier
authenticate(user, password) == password # NoString /\ password = user.password

\* user.updateEmail(email): sets the email and a fresh confirmation token
\* (one per created user) with its expiry
updateEmail(user, email, id, t) ==
    [user EXCEPT !.email = email,
                 !.emailConfirmationToken = id,
                 !.emailConfirmationTokenExpires = t + ConfirmLife]

\* a constructor that takes the new account as confirmed
NewUserConfirmed(args) ==
    [email |-> NoString, username |-> args.username, password |-> args.password,
     emailConfirmed |-> 0,
     emailConfirmationToken |-> NoConfToken,
     emailConfirmationTokenExpires |-> NoDate,
     refreshToken |-> NoToken, refreshTokenExpires |-> NoDate]

\* new User(args), provider 'local'
NewUser(args) ==
    [email |-> NoString, username |-> args.username, password |-> args.password,
     emailConfirmed |-> NoDate,
     emailConfirmationToken |-> NoConfToken,
     emailConfirmationTokenExpires |-> NoDate,
     refreshToken |-> NoToken, refreshTokenExpires |-> NoDate]

\* the fields of err.errors when the schema validators reject the document
\* (mongoose validates before it inserts)
ValidationErrors(doc, other) ==
    {f \in {"email"} : doc.email \notin Emails}
    \cup {f \in {"password"} : doc.password # GoodPassword}
    \cup {f \in {"other"} : other}

\* the unique indexes on email and username
DuplicateKey(doc) ==
    \E i \in UserIds :
        users[i].email = doc.email \/ users[i].username = doc.username

\* what a write to the store does: it succeeds, or it throws
StoreOutcomes == {"ok", "MongoServerError", "MongoNetworkError"}
SaveOutcomes == {"ok", "MongoNetworkError"}

\* user.save() of a new document: what it throws, "ok" when it inserts
SaveNewUser(doc, other, store) ==
    IF ValidationErrors(doc, other) # {} THEN "ValidationError"
    ELSE IF store # "ok" THEN store
    ELSE IF DuplicateKey(doc) THEN "DuplicateKey"
    ELSE "ok"

\* getTokens(user, env): the refresh token and expiry it sets on the document
\* (the access token it returns with it is signed in the same second)
getTokens(id, t) ==
    [refreshToken |-> sign(id, "refresh", t), refreshTokenExpires |-> t + RefreshLife]

\* doc.save() of a loaded document sends only the modified paths: a path is
\* modified when the value set differs from the value loaded
Modified(loaded, doc, current) == IF doc # loaded THEN doc ELSE current

\* a resolver without the catch block around its save: the error of a failed
\* save leaves the resolver
CompleteRethrowing(p, result) ==
    /\ last' = IF result.out \in {"null", "false"}
               THEN [result EXCEPT !.out = "MongoNetworkError"]
               ELSE result
    /\ pending' = [pending EXCEPT ![p] = Idle]

\* return of a resolver suspended at its save: the try block returns the
\* result, the catch block notifies Bugsnag and the resolver returns null/false
Complete(p, result) ==
    /\ last' = result
    /\ pending' = [pending EXCEPT ![p] = Idle]

-----------------------------------------------------------------------------
(* Mutation.validateAccount *)

validateAccountRead(p, username, token) ==
    /\ pending[p] = Idle
    /\ LET id == findOne({i \in UserIds : users[i].username = username})
           flags == [exists |-> id # 0,
                     matches |-> id # 0 /\ users[id].emailConfirmationToken = token,
                     expired |-> id # 0 /\ users[id].emailConfirmationTokenExpires # NoDate
                                   /\ now > users[id].emailConfirmationTokenExpires,
                     consumed |-> id # 0 /\ id \in validated /\ token = id]
       IN IF \/ id = 0
             \/ users[id].emailConfirmationToken # token
             \/ After(now, fromISO(users[id].emailConfirmationTokenExpires))
          THEN /\ last' = [op |-> "validateAccount", out |-> "USER_NOT_FOUND",
                           flags |-> flags]
               /\ UNCHANGED pending
          ELSE /\ pending' = [pending EXCEPT ![p] =
                       [op |-> "validateAccount", id |-> id,
                        emailConfirmed |-> now, flags |-> flags]]
               /\ UNCHANGED last
    /\ UNCHANGED <<users, regs, now, rot, issued, signedOut, validated>>

\* a validateAccount that stamps emailConfirmed and leaves the token in place
ConfirmKeepingToken(user, t) == [user EXCEPT !.emailConfirmed = t]

\* a validateAccount that clears the token and does not stamp emailConfirmed
ConfirmWithoutStamp(user, t) ==
    [user EXCEPT !.emailConfirmationToken = NoConfToken,
                 !.emailConfirmationTokenExpires = NoDate]

\* user.emailConfirmationToken = undefined, ...Expires = undefined,
\* user.emailConfirmed = new Date()
Confirm(user, t) ==
    [user EXCEPT !.emailConfirmationToken = NoConfToken,
                 !.emailConfirmationTokenExpires = NoDate,
                 !.emailConfirmed = t]

validateAccountSave(p, store) ==
    /\ pending[p].op = "validateAccount"
    /\ LET c == pending[p]
       IN IF store = "ok"
          THEN /\ users' = [users EXCEPT ![c.id] = Confirm(@, c.emailConfirmed)]
               /\ validated' = validated \cup {c.id}
               /\ Complete(p, [op |-> "validateAccount", out |-> "true",
                               flags |-> c.flags])
          ELSE /\ UNCHANGED <<users, validated>>
               /\ Complete(p, [op |-> "validateAccount", out |-> "false",
                               flags |-> c.flags])
    /\ UNCHANGED <<regs, now, rot, issued, signedOut>>

-----------------------------------------------------------------------------
(* Mutation.signUp of src/users/resolvers.js.                               *)
(* The environment of a run: other, whether another schema validator        *)
(* rejects the document; store, what the insert does; mailOk, whether       *)
(* sendMail resolves; failing, the invitations whose save rejects.          *)

SignUpArgs ==
    [firstName : {NoString, "F"}, lastName : {NoString, "L"},
     email : Emails \cup {BadEmail, NoString},
     password : {GoodPassword, BadPassword, NoString},
     username : Usernames]

MissingFields(args) ==
    \/ args.firstName = NoString
    \/ args.lastName = NoString
    \/ args.email = NoString
    \/ args.password = NoString

\* Registration.find({ email })
Invitations(email) == {i \in DOMAIN regs : regs[i].email = email}

\* registrations.map(...): every callback runs and saves its invitation;
\* the ones whose save rejects leave the collection unchanged
ClaimInvitations(email, id, failing) ==
    [i \in DOMAIN regs |->
        IF i \in Invitations(email) \ failing
        THEN [email |-> NoString, user |-> id]
        ELSE regs[i]]

\* a catch block that does not recognise the duplicate key error
SignUpCatchWithoutDuplicate(err, errors) ==
    IF err = "ValidationError" /\ "email" \in errors THEN "INVALID_EMAIL_ADDRESS"
    ELSE IF err = "ValidationError" /\ "password" \in errors THEN "INVALID_PASSWORD"
    ELSE "false"

\* the catch block of signUp: the UserInputError thrown, or "false"
SignUpCatch(err, errors) ==
    IF err = "DuplicateKey" THEN "EXISTING_EMAIL_ADDRESS"
    ELSE IF err = "ValidationError" /\ "email" \in errors THEN "INVALID_EMAIL_ADDRESS"
    ELSE IF err = "ValidationError" /\ "password" \in errors THEN "INVALID_PASSWORD"
    ELSE "false"

\* the part of the environment a run consults: another validator when email
\* and password pass, the insert when the document is valid, sendMail when
\* the insert succeeds, the invitations' saves after it
Inserted(args, other, store) ==
    /\ args.email \in Emails
    /\ args.password = GoodPassword
    /\ ~other
    /\ store = "ok"
    /\ \A i \in UserIds : users[i].email # args.email /\ users[i].username # args.username
Validators(args) ==
    IF args.email \in Emails /\ args.password = GoodPassword THEN BOOLEAN ELSE {FALSE}
Inserts(args, other) ==
    IF other \/ args.email \notin Emails \/ args.password # GoodPassword
    THEN {"ok"} ELSE StoreOutcomes
Sends(args, other, store) ==
    IF Inserted(args, other, store) THEN BOOLEAN ELSE {TRUE}
Rejects(args, other, store, mailOk) ==
    IF mailOk /\ Inserted(args, other, store)
    THEN SUBSET Invitations(args.email) ELSE {{}}

\* a store that inserts the document before its validators run
InsertBeforeValidation(user, err) ==
    IF err \in {"ok", "ValidationError"} THEN Append(users, user) ELSE users

\* await user.save() of the new document: the collection after it
Insert(user, err) == IF err = "ok" THEN Append(users, user) ELSE users

\* a signUp that calls sendMail before it awaits user.save()
NotifiedBeforeSave(err) == TRUE

\* whether sendMail is called: it follows await user.save() in the try block,
\* and a save that throws goes to the catch block
Notified(err) == err = "ok"

\* what the call was about, kept with its outcome
SignUpFlags(args, other, store, err, mailOk, failing) ==
    [missing |-> MissingFields(args),
     emailTaken |-> \E i \in UserIds : users[i].email = args.email,
     passwordOk |-> args.password = GoodPassword,
     rejected |-> other,
     storeUp |-> store = "ok",
     saved |-> err = "ok",
     err |-> err,
     emailOk |-> args.email \in Emails,
     mailOk |-> mailOk,
     regFailed |-> failing # {},
     invited |-> Invitations(args.email) # {},
     usersKept |-> users' = users,
     claimed |-> \A i \in Invitations(args.email) :
                    regs'[i] = [email |-> NoString, user |-> Len(users) + 1],
     othersClaimed |-> \A i \in Invitations(args.email) \ failing :
                    regs'[i] = [email |-> NoString, user |-> Len(users) + 1]]

signUp(args, other, store, mailOk, failing) ==
    /\ \A p \in Procs : pending[p] = Idle
    /\ LET id == Len(users) + 1
           user == updateEmail(NewUser(args), args.email, id, now)
           err == SaveNewUser(user, other, store)
           out == IF err # "ok" THEN SignUpCatch(err, ValidationErrors(user, other))
                  ELSE IF ~mailOk \/ failing # {} THEN "false"
                  ELSE "true"
       IN /\ users' = Insert(user, err)
          /\ issued' = IF Len(users') > Len(users) THEN Append(issued, NoToken)
                       ELSE issued
          /\ regs' = IF err = "ok" /\ mailOk
                     THEN ClaimInvitations(args.email, id, failing)
                     ELSE regs
          /\ last' = [op |-> "signUp", impl |-> "users", out |-> out,
                      mailed |-> Notified(err),
                      flags |-> SignUpFlags(args, other, store, err, mailOk, failing)]
    /\ UNCHANGED <<now, pending, rot, signedOut, validated>>

-----------------------------------------------------------------------------
(* Mutation.signUp of src/data/resolvers.js *)

\* the catch block: case 'MongoServerError' has no break and falls into
\* case 'ValidationError', which reads err.errors.email
DataSignUpCatch(err, errors) ==
    IF err = "DuplicateKey" THEN "EXISTING_EMAIL_ADDRESS"
    ELSE IF err = "MongoServerError" THEN "TypeError"
    ELSE IF err = "ValidationError" /\ "email" \in errors THEN "INVALID_EMAIL_ADDRESS"
    ELSE "false"

dataSignUp(args, other, store) ==
    /\ \A p \in Procs : pending[p] = Idle
    /\ LET id == Len(users) + 1
           user == updateEmail(NewUser(args), args.email, id, now)
           err == IF MissingFields(args) THEN "MISSING_FIELDS"
                  ELSE SaveNewUser(user, other, store)
           out == IF err = "MISSING_FIELDS" THEN "MISSING_FIELDS"
                  ELSE IF err # "ok"
                       THEN DataSignUpCatch(err, ValidationErrors(user, other))
                  ELSE "true"
       IN /\ users' = Insert(user, err)
          /\ issued' = IF Len(users') > Len(users) THEN Append(issued, NoToken)
                       ELSE issued
          /\ regs' = regs
          /\ last' = [op |-> "signUp", impl |-> "data", out |-> out,
                      mailed |-> FALSE,
                      flags |-> SignUpFlags(args, other, store, err, FALSE, {})]
    /\ UNCHANGED <<now, pending, rot, signedOut, validated>>

-----------------------------------------------------------------------------
(* Mutation.signIn of src/users/resolvers.js *)

SignInFlags(id, identity, password) ==
    [present |-> identity # NoString /\ password # NoString,
     matched |-> id # 0,
     passwordOk |-> id # 0 /\ password = users[id].password,
     confirmed |-> id # 0 /\ users[id].emailConfirmed # NoDate]

signInRead(p, usernameOrEmail, password) ==
    /\ pending[p] = Idle
    /\ LET id == findOne({i \in UserIds : \/ users[i].email = usernameOrEmail
                                            \/ users[i].username = usernameOrEmail})
           flags == SignInFlags(id, usernameOrEmail, password)
       IN IF id = 0 \/ ~authenticate(users[id], password)
          THEN /\ last' = [op |-> "signIn", impl |-> "users",
                           out |-> "INVALID_CREDENTIALS", flags |-> flags]
               /\ UNCHANGED pending
          ELSE IF users[id].emailConfirmed = NoDate
          THEN /\ last' = [op |-> "signIn", impl |-> "users",
                           out |-> "UNCONFIRMED_EMAIL_ADDRESS", flags |-> flags]
               /\ UNCHANGED pending
          ELSE /\ pending' = [pending EXCEPT ![p] =
                       [op |-> "signIn", id |-> id, doc |-> getTokens(id, now),
                        flags |-> flags]]
               /\ UNCHANGED last
    /\ UNCHANGED <<users, regs, now, rot, issued, signedOut, validated>>

\* the projection of signIn does not load refreshToken and refreshTokenExpires:
\* both paths are modified and written
signInSave(p, store) ==
    /\ pending[p].op = "signIn"
    /\ LET c == pending[p]
       IN IF store = "ok"
          THEN /\ users' = [users EXCEPT ![c.id] =
                       [@ EXCEPT !.refreshToken = c.doc.refreshToken,
                                 !.refreshTokenExpires = c.doc.refreshTokenExpires]]
               /\ rot' = [id |-> c.id, old |-> users[c.id].refreshToken]
               /\ issued' = [issued EXCEPT ![c.id] = c.doc.refreshToken]
               /\ signedOut' = signedOut \ {c.id}
               /\ Complete(p, [op |-> "signIn", impl |-> "users",
                               out |-> "TokenPair", flags |-> c.flags])
          ELSE /\ UNCHANGED <<users, rot, issued, signedOut>>
               /\ Complete(p, [op |-> "signIn", impl |-> "users",
                               out |-> "null", flags |-> c.flags])
    /\ UNCHANGED <<regs, now, validated>>

-----------------------------------------------------------------------------
(* Mutation.signIn and Mutation.signOut of src/data/resolvers.js *)

dataSignIn(email, password) ==
    /\ \A p \in Procs : pending[p] = Idle
    /\ LET id == findOne({i \in UserIds : users[i].email = email})
           flags == SignInFlags(id, email, password)
       IN last' = [op |-> "signIn", impl |-> "data",
                   out |-> IF email = NoString \/ password = NoString
                               THEN "MISSING_FIELDS"
                           ELSE IF id # 0 /\ authenticate(users[id], password)
                               THEN "Token"
                           ELSE "INVALID_CREDENTIALS",
                   flags |-> flags]
    /\ UNCHANGED <<users, regs, now, pending, rot, issued, signedOut, validated>>

dataSignOut ==
    /\ \A p \in Procs : pending[p] = Idle
    /\ last' = [op |-> "signOut", impl |-> "data", out |-> "true"]
    /\ UNCHANGED <<users, regs, now, pending, rot, issued, signedOut, validated>>

-----------------------------------------------------------------------------
(* Mutation.refreshToken *)

\* the refresh tokens, access tokens and other strings a client can present
Presentable ==
    {JunkToken} \cup
    [kind : {"refresh", "access"}, id : UserIds, iat : 0..now]

RefreshFlags(p, token) ==
    LET id == token.id
    IN [verifies |-> verify(token, now) = "ok",
        matches |-> id \in UserIds /\ users[id].refreshToken = token,
        storedExpired |-> id \in UserIds /\ users[id].refreshTokenExpires # NoDate
                             /\ now > users[id].refreshTokenExpires,
        stale |-> token.kind = "refresh" /\ rot.id = id /\ rot.old = token,
        afterSignOut |-> id \in signedOut /\ issued[id] = token,
        peer |-> "none"]

refreshTokenRead(p, token) ==
    /\ pending[p] = Idle
    /\ LET decoded == verify(token, now)
           id == token.id
           flags == RefreshFlags(p, token)
       IN IF decoded # "ok"
          THEN /\ last' = [op |-> "refreshToken", out |-> decoded, flags |-> flags]
               /\ UNCHANGED pending
          ELSE IF \/ id \notin UserIds
                  \/ users[id].refreshToken # token
                  \/ After(now, fromISO(users[id].refreshTokenExpires))
          THEN /\ last' = [op |-> "refreshToken", out |-> "INVALID_REFRESH_TOKEN",
                           flags |-> flags]
               /\ UNCHANGED pending
          ELSE /\ pending' = [pending EXCEPT ![p] =
                       [op |-> "refreshToken", id |-> id, token |-> token,
                        loaded |-> [refreshToken |-> users[id].refreshToken,
                                    refreshTokenExpires |-> users[id].refreshTokenExpires],
                        doc |-> getTokens(id, now), flags |-> flags]]
               /\ UNCHANGED last
    /\ UNCHANGED <<users, regs, now, rot, issued, signedOut, validated>>

\* a call suspended at its save while q completes a refreshToken call for the
\* same token learns q's outcome: the two calls ran concurrently
TellPeers(q, out) ==
    [p \in Procs |->
        IF /\ p # q
           /\ pending[p].op = "refreshToken"
           /\ pending[p].token = pending[q].token
        THEN [pending[p] EXCEPT !.flags.peer = out]
        ELSE IF p = q THEN Idle ELSE pending[p]]

refreshTokenSave(p, store) ==
    /\ pending[p].op = "refreshToken"
    /\ LET c == pending[p]
           out == IF store = "ok" THEN "TokenPair" ELSE "null"
       IN /\ IF store = "ok"
             THEN /\ users' = [users EXCEPT ![c.id] =
                          [@ EXCEPT !.refreshToken =
                                        Modified(c.loaded.refreshToken,
                                                 c.doc.refreshToken, @),
                                    !.refreshTokenExpires =
                                        Modified(c.loaded.refreshTokenExpires,
                                                 c.doc.refreshTokenExpires, @)]]
                  /\ rot' = [id |-> c.id, old |-> users[c.id].refreshToken]
                  /\ issued' = [issued EXCEPT ![c.id] = c.doc.refreshToken]
             ELSE UNCHANGED <<users, rot, issued>>
          /\ last' = [op |-> "refreshToken", out |-> out, flags |-> c.flags]
          /\ pending' = TellPeers(p, out)
    /\ UNCHANGED <<regs, now, signedOut, validated>>

-----------------------------------------------------------------------------
(* Mutation.signOut of src/users/resolvers.js; id = 0: the context names no  *)
(* user document                                                            *)

signOutRead(p, id) ==
    /\ pending[p] = Idle
    /\ IF id = 0
       THEN /\ last' = [op |-> "signOut", impl |-> "users", out |-> "TypeError"]
            /\ UNCHANGED pending
       ELSE /\ pending' = [pending EXCEPT ![p] =
                    [op |-> "signOut", id |-> id,
                     loaded |-> [refreshToken |-> users[id].refreshToken,
                                 refreshTokenExpires |-> users[id].refreshTokenExpires]]]
            /\ UNCHANGED last
    /\ UNCHANGED <<users, regs, now, rot, issued, signedOut, validated>>

signOutSave(p, store) ==
    /\ pending[p].op = "signOut"
    /\ LET c == pending[p]
       IN IF store = "ok"
          THEN /\ users' = [users EXCEPT ![c.id] =
                       [@ EXCEPT !.refreshToken =
                                     Modified(c.loaded.refreshToken, NoToken, @),
                                 !.refreshTokenExpires =
                                     Modified(c.loaded.refreshTokenExpires, NoDate, @)]]
               /\ signedOut' = signedOut \cup {c.id}
               /\ Complete(p, [op |-> "signOut", impl |-> "users", out |-> "true"])
          ELSE /\ UNCHANGED <<users, signedOut>>
               /\ Complete(p, [op |-> "signOut", impl |-> "users", out |-> "false"])
    /\ UNCHANGED <<regs, now, rot, issued, validated>>

-----------------------------------------------------------------------------
SignUpNext ==
    \/ Tick
    \/ \E a \in SignUpArgs : \E other \in Validators(a) :
          \E s \in Inserts(a, other) : \E m \in Sends(a, other, s) :
              \E f \in Rejects(a, other, s, m) : signUp(a, other, s, m, f)
    \/ \E a \in SignUpArgs : \E other \in Validators(a) :
          \E s \in Inserts(a, other) : dataSignUp(a, other, s)

\* the sign-ups that create an account: complete arguments, nothing fails
Account(email) ==
    [firstName |-> "F", lastName |-> "L", email |-> email, password |-> GoodPassword,
     username |-> IF email = "a@b.com" THEN "u1" ELSE "u2"]

AccountNext ==
    \/ Tick
    \/ \E e \in Emails : signUp(Account(e), FALSE, "ok", TRUE, {})
    \/ \E p \in Procs, n \in Usernames, t \in 1..MaxUsers : validateAccountRead(p, n, t)
    \/ \E p \in Procs, s \in SaveOutcomes : validateAccountSave(p, s)
    \/ \E p \in Procs, x \in Emails \cup Usernames,
          w \in {GoodPassword, BadPassword, NoString} : signInRead(p, x, w)
    \/ \E p \in Procs, s \in SaveOutcomes : signInSave(p, s)
    \/ \E e \in Emails \cup {NoString},
          w \in {GoodPassword, BadPassword, NoString} : dataSignIn(e, w)

SessionNext ==
    \/ Tick
    \/ \E p \in Procs, x \in Emails \cup Usernames,
          w \in {GoodPassword, BadPassword, NoString} : signInRead(p, x, w)
    \/ \E p \in Procs, s \in SaveOutcomes : signInSave(p, s)
    \/ \E p \in Procs, t \in Presentable : refreshTokenRead(p, t)
    \/ \E p \in Procs, s \in SaveOutcomes : refreshTokenSave(p, s)
    \/ \E p \in Procs, id \in UserIds \cup {0} : signOutRead(p, id)
    \/ \E p \in Procs, s \in SaveOutcomes : signOutSave(p, s)
    \/ dataSignOut

\* every operation, one request at a time: the sign-ups of one account with
\* valid, invalid and missing arguments, then its confirmation and sessions
LifecycleArgs ==
    {[Account("a@b.com") EXCEPT !.email = e, !.password = w, !.firstName = f] :
        e \in {"a@b.com", BadEmail}, w \in {GoodPassword, BadPassword},
        f \in {"F", NoString}}

LifecycleNext ==
    \/ Tick
    \/ \E a \in LifecycleArgs : \E other \in Validators(a) :
          \E s \in Inserts(a, other) : \E m \in Sends(a, other, s) :
              \E f \in Rejects(a, other, s, m) : signUp(a, other, s, m, f)
    \/ \E a \in LifecycleArgs : \E other \in Validators(a) :
          \E s \in Inserts(a, other) : dataSignUp(a, other, s)
    \/ \E n \in Usernames, t \in 1..MaxUsers : validateAccountRead("A", n, t)
    \/ \E s \in SaveOutcomes : validateAccountSave("A", s)
    \/ \E x \in Emails \cup Usernames, w \in {GoodPassword, BadPassword} :
          signInRead("A", x, w)
    \/ \E s \in SaveOutcomes : signInSave("A", s)
    \/ \E e \in Emails, w \in {GoodPassword, BadPassword} : dataSignIn(e, w)
    \/ \E t \in Presentable : refreshTokenRead("A", t)
    \/ \E s \in SaveOutcomes : refreshTokenSave("A", s)
    \/ \E id \in UserIds \cup {0} : signOutRead("A", id)
    \/ \E s \in SaveOutcomes : signOutSave("A", s)
    \/ dataSignOut

\* The whole system. The three relations above cut it along the operations
\* that share no field: sign-up with every argument and failure of its
\* environment; confirmation and sign-in on the accounts sign-up creates;
\* the session operations on a confirmed account.
Next == SignUpNext \/ AccountNext \/ SessionNext \/ LifecycleNext

Spec == Init /\ [][Next]_vars

\* the store once a@b.com has signed up and validated the account at second 0
SessionInit ==
    /\ users = <<[email |-> "a@b.com", username |-> "u1", password |-> GoodPassword,
                  emailConfirmed |-> 0,
                  emailConfirmationToken |-> NoConfToken,
                  emailConfirmationTokenExpires |-> NoDate,
                  refreshToken |-> NoToken, refreshTokenExpires |-> NoDate]>>
    /\ regs = <<[email |-> NoString, user |-> 1], [email |-> NoString, user |-> 1]>>
    /\ now = 0
    /\ pending = [p \in Procs |-> Idle]
    /\ last = [op |-> "validateAccount", out |-> "true",
               flags |-> [exists |-> TRUE, matches |-> TRUE, expired |-> FALSE,
                          consumed |-> FALSE]]
    /\ rot = NoRot
    /\ issued = <<NoToken>>
    /\ signedOut = {}
    /\ validated = {1}

SignUpSpec == Init /\ [][SignUpNext]_vars
AccountSpec == Init /\ [][AccountNext]_vars
SessionSpec == SessionInit /\ [][SessionNext]_vars
LifecycleSpec == Init /\ [][LifecycleNext]_vars
-----------------------------------------------------------------------------
(* Properties *)

\* the refreshToken calls that passed every check and are suspended at the save
Accepted(p) == pending[p].op = "refreshToken"

\* C1: of two refreshToken calls that present the same valid stored token and
\* run concurrently, exactly one returns a TokenPair and the other fails with
\* INVALID_REFRESH_TOKEN (stated for the runs in which no save is failed by
\* the store).
C1_OneConcurrentRefreshWins ==
    (/\ last.op = "refreshToken"
     /\ last.flags.peer \notin {"none", "null"}
     /\ last.out # "null")
        => {last.out, last.flags.peer} = {"TokenPair", "INVALID_REFRESH_TOKEN"}

\* C2: a refreshToken call presenting the token that was stored for the user
\* before the latest successful signIn or refreshToken fails with
\* INVALID_REFRESH_TOKEN.
C2_RotationInvalidatesPrior ==
    /\ (last.op = "refreshToken" /\ last.flags.stale)
            => last.out = "INVALID_REFRESH_TOKEN"
    /\ \A p \in Procs : Accepted(p) => ~pending[p].flags.stale

\* C3: once signOut has returned true for a user and until the next successful
\* signIn, a refreshToken call presenting the refresh token issued last to
\* that user fails with INVALID_REFRESH_TOKEN.
C3_SignOutInvalidates ==
    /\ (last.op = "refreshToken" /\ last.flags.afterSignOut)
            => last.out = "INVALID_REFRESH_TOKEN"
    /\ \A p \in Procs : Accepted(p) => ~pending[p].flags.afterSignOut

\* C7: a refreshToken call whose token does not verify, does not equal the
\* stored refreshToken of the user it names, or whose stored
\* refreshTokenExpires has passed fails with INVALID_REFRESH_TOKEN and with no
\* other error.
C7_SingleFailureKind ==
    LET Bad(f) == ~f.verifies \/ ~f.matches \/ f.storedExpired
    IN /\ (last.op = "refreshToken" /\ Bad(last.flags))
            => last.out = "INVALID_REFRESH_TOKEN"
       /\ \A p \in Procs : Accepted(p) => ~Bad(pending[p].flags)

\* C4: signIn fails with INVALID_CREDENTIALS when no user matches or the
\* password is rejected, with UNCONFIRMED_EMAIL_ADDRESS when the user matches
\* with the correct password but is not confirmed, and returns tokens only
\* when the user matches, the password is accepted and the user is confirmed
\* (stated for the calls that give an identity and a password).
C4_SignInFailureKind ==
    (last.op = "signIn" /\ last.flags.present) =>
        LET f == last.flags
            known == f.matched /\ f.passwordOk
        IN /\ (~known => last.out = "INVALID_CREDENTIALS")
           /\ (known /\ ~f.confirmed => last.out = "UNCONFIRMED_EMAIL_ADDRESS")
           /\ (last.out \in {"TokenPair", "Token"} => known /\ f.confirmed)

\* C5: validateAccount returns true only when the username exists, the token
\* equals the stored one and the current time is not after the stored expiry;
\* in every other case it fails with USER_NOT_FOUND (stated for the calls
\* whose save is not failed by the store).
C5_ValidateOnlyFreshMatchingToken ==
    /\ (last.op = "validateAccount" /\ last.out # "false") =>
            LET f == last.flags
            IN IF f.exists /\ f.matches /\ ~f.expired
               THEN last.out = "true"
               ELSE last.out = "USER_NOT_FOUND"
    /\ \A p \in Procs : pending[p].op = "validateAccount" => ~pending[p].flags.expired

\* C6: once validateAccount(username, t) has returned true, every later
\* validateAccount call for that username with the token t fails with
\* USER_NOT_FOUND.
C6_TokenConsumed ==
    /\ (last.op = "validateAccount" /\ last.flags.consumed)
            => last.out = "USER_NOT_FOUND"
    /\ \A p \in Procs : pending[p].op = "validateAccount" => ~pending[p].flags.consumed

C6_Witness ==
    /\ last.op = "validateAccount"
    /\ last.flags.consumed
    /\ last.out = "USER_NOT_FOUND"

\* C8 as stated: signUp with an email already in the store fails with
\* EXISTING_EMAIL_ADDRESS, whatever the other arguments, and changes no user.
C8_ExistingEmailAlways ==
    (last.op = "signUp" /\ last.flags.emailTaken)
        => last.out = "EXISTING_EMAIL_ADDRESS" /\ last.flags.usersKept

\* C8 amended: signUp with the four required fields present, arguments the
\* schema validators accept and an email already in the store fails with
\* EXISTING_EMAIL_ADDRESS whatever the username, when the store answers the
\* insert; no signUp with an email already in the store returns true, creates
\* or changes a user document.
C8_ExistingEmail ==
    (last.op = "signUp" /\ last.flags.emailTaken) =>
        /\ last.flags.usersKept
        /\ last.out # "true"
        /\ (~last.flags.missing /\ last.flags.passwordOk /\ ~last.flags.rejected
                /\ last.flags.storeUp
                => last.out = "EXISTING_EMAIL_ADDRESS")

C8_Witness ==
    /\ last.op = "signUp"
    /\ last.flags.emailTaken
    /\ last.out = "EXISTING_EMAIL_ADDRESS"
    /\ Len(users) = 1

\* C9: signUp fails with MISSING_FIELDS whenever firstName, lastName, email or
\* password is absent, and no user document is created.
C9_MissingFields ==
    (last.op = "signUp" /\ last.flags.missing)
        => last.out = "MISSING_FIELDS" /\ ~last.flags.saved

\* C10: whenever signUp has persisted the new user and sending the
\* confirmation email fails, signUp returns true and the pending invitations
\* for the email are claimed.
C10_NotifierNotFatal ==
    (last.op = "signUp" /\ last.flags.saved /\ ~last.flags.mailOk /\ last.impl = "users")
        => last.out = "true" /\ last.flags.claimed

\* C11: when signUp of src/users/resolvers.js has persisted the user and sent
\* the email, and the save of one pending invitation fails, signUp still
\* returns true and every other pending invitation for the email is reassigned
\* to the new user with its email detached.
C11_InvitationTransferBestEffort ==
    (/\ last.op = "signUp"
     /\ last.impl = "users"
     /\ last.flags.saved
     /\ last.flags.mailOk
     /\ last.flags.regFailed)
        => last.out = "true" /\ last.flags.othersClaimed

\* the four operations that end with a save of the loaded user document
SavingOps == {"signIn", "refreshToken", "signOut", "validateAccount"}

\* C12: a step in which signIn, refreshToken, signOut or validateAccount comes
\* back from its save either succeeds, or returns null/false and leaves every
\* stored user record as it was (no named error, no second attempt).
C12_FailedSaveNeutral ==
    [][\A p \in Procs :
          (pending[p].op \in SavingOps /\ pending'[p] = Idle) =>
              \/ last'.out \in {"TokenPair", "true"}
              \/ last'.out \in {"null", "false"} /\ users' = users]_vars

C12_Witness ==
    /\ last.op = "refreshToken"
    /\ last.out = "null"
    /\ \E i \in UserIds : users[i].refreshToken = issued[i] /\ issued[i] # NoToken

\* C13: signOut of src/users/resolvers.js always gives a boolean result, and
\* when it returns true with no other request in progress the user it was
\* called for has no refreshToken and no refreshTokenExpires.
C13_SignOutIdempotent ==
    [][/\ (last'.op = "signOut" /\ last'.impl = "users")
              => last'.out \in {"true", "false"}
       /\ \A p \in Procs :
              (/\ pending[p].op = "signOut"
               /\ pending'[p] = Idle
               /\ last'.out = "true"
               /\ \A q \in Procs \ {p} : pending[q] = Idle)
                  => /\ users'[pending[p].id].refreshToken = NoToken
                     /\ users'[pending[p].id].refreshTokenExpires = NoDate]_vars

\* C14: the user record a signUp persists is unconfirmed, has no refresh
\* token, and carries a confirmation token with an expiry strictly after the
\* second it is created in.
C14_NewUserUnconfirmed ==
    [][Len(users') > Len(users) =>
          LET user == users'[Len(users')]
          IN /\ user.emailConfirmed = NoDate
             /\ user.refreshToken = NoToken
             /\ user.refreshTokenExpires = NoDate
             /\ user.emailConfirmationToken # NoConfToken
             /\ user.emailConfirmationTokenExpires # NoDate
             /\ user.emailConfirmationTokenExpires > now]_vars

C14_Witness ==
    /\ last.op = "signUp"
    /\ last.out = "true"
    /\ Len(users) = MaxUsers

\* C15: when the save of the new user fails, signUp fails with
\* INVALID_EMAIL_ADDRESS if the validators reject the email, with
\* INVALID_PASSWORD if they reject the password, and returns false for every
\* failure that is neither of these nor a duplicate key.
C15_PersistenceFailureKind ==
    (/\ last.op = "signUp"
     /\ last.flags.err \notin {"ok", "MISSING_FIELDS", "DuplicateKey"})
        => last.out =
              IF last.flags.err = "ValidationError" /\ ~last.flags.emailOk
                  THEN "INVALID_EMAIL_ADDRESS"
              ELSE IF last.flags.err = "ValidationError" /\ ~last.flags.passwordOk
                  THEN "INVALID_PASSWORD"
              ELSE "false"

\* C16: in every stored user record emailConfirmationToken is present exactly
\* when emailConfirmed is absent, the expiry is present exactly with the
\* token, and a user for whom validateAccount has returned true stays
\* confirmed and without a confirmation token.
C16_TokenIffUnconfirmed ==
    \A i \in UserIds :
        /\ users[i].emailConfirmationToken # NoConfToken
              <=> users[i].emailConfirmed = NoDate
        /\ users[i].emailConfirmationToken # NoConfToken
              <=> users[i].emailConfirmationTokenExpires # NoDate
        /\ i \in validated => users[i].emailConfirmed # NoDate

C16_Witness ==
    /\ last.op = "signIn"
    /\ last.out = "TokenPair"
    /\ \E i \in UserIds : i \in validated /\ users[i].refreshToken # NoToken
    /\ \E i \in UserIds : users[i].emailConfirmed = NoDate

\* C17: a validateAccount call that passed its checks before another call for
\* the same user returned true, and comes back from its save after it, fails
\* with USER_NOT_FOUND (stated for the calls whose save the store accepts).
C17_ConfirmationSingleUse ==
    [][\A p \in Procs :
          (/\ pending[p].op = "validateAccount"
           /\ pending'[p] = Idle
           /\ pending[p].id \in validated
           /\ last'.out # "false")
              => last'.out = "USER_NOT_FOUND"]_vars

\* C18: a user record that stores a refresh token has emailConfirmed set, and
\* a signIn that returns tokens was called for a confirmed user.
C18_SessionOnlyIfConfirmed ==
    /\ \A i \in UserIds :
          users[i].refreshToken # NoToken => users[i].emailConfirmed # NoDate
    /\ (last.op = "signIn" /\ last.out \in {"TokenPair", "Token"})
          => last.flags.confirmed

\* C19: when a refreshToken call that passed its checks comes back from its
\* save after a signOut for the same user has returned true and cleared the
\* stored token in between, the user still has no stored refreshToken.
C19_SignOutNotUndone ==
    [][\A p \in Procs :
          (/\ pending[p].op = "refreshToken"
           /\ pending'[p] = Idle
           /\ pending[p].id \in signedOut
           /\ users[pending[p].id].refreshToken = NoToken)
              => users'[pending[p].id].refreshToken = NoToken]_vars

\* the errors thrown as UserInputError
NamedErrors ==
    {"INVALID_CREDENTIALS", "UNCONFIRMED_EMAIL_ADDRESS", "INVALID_REFRESH_TOKEN",
     "USER_NOT_FOUND", "MISSING_FIELDS", "EXISTING_EMAIL_ADDRESS",
     "INVALID_EMAIL_ADDRESS", "INVALID_PASSWORD"}

C21_SideEffectsAfterCommit ==
    [][/\ (last'.op = "signUp" /\ ~last'.flags.saved) => ~last'.mailed
       /\ regs' # regs =>
              /\ Len(users') = Len(users) + 1
              /\ last'.op = "signUp"
              /\ last'.mailed]_vars

C21_Witness ==
    /\ last.op = "signUp"
    /\ last.impl = "users"
    /\ last.flags.err \in {"DuplicateKey", "ValidationError"}
    /\ ~last.mailed
    /\ \E i \in DOMAIN regs : regs[i].user # 0
    /\ \E i \in DOMAIN regs : regs[i].user = 0

====
